---- MODULE Spec2Model ----
(***************************************************************************)
(* Transcript sentiment pipeline (src/src/pipeline.py, src/src/llm_client.py)*)
(*                                                                         *)
(* Strings are sequences of one-character strings.  Floats that the code   *)
(* computes by division are exact rationals <<numerator, denominator>>     *)
(* with a positive denominator, in lowest terms.                           *)
(***************************************************************************)
EXTENDS Integers, Sequences, FiniteSets, TLC

VARIABLES
    text,         \* the transcript text (split_into_chunks argument / file content)
    max_words,    \* split_into_chunks argument
    chunks,       \* list returned by split_into_chunks
    seg_pc,       \* "idle" | "ready" | "done": position of the split_into_chunks call
    env_key,      \* whether OPENAI_API_KEY is set in the environment
    config,       \* PipelineConfig: words_per_minute, max_topics, custom_topics
    pc,           \* position of the run: "idle" | "start" | "client" | "awaiting" | "done" | "raised"
    oracle_calls, \* number of chat.completions.create requests issued so far
    call,         \* locals of the client call in progress: mode, total_words, total_minutes
    reply,        \* what the last oracle request produced (transport failure or message content)
    analysis,     \* topics of the FullTranscriptAnalysis the client returned
    df,           \* rows of the DataFrame run_pipeline returned
    results,      \* analyze_chunks: the ChunkAnalysis list built so far
    chunk_idx,    \* analyze_chunks: number of chunks the loop has finished
    cli_pc,       \* cli.main / generate_treemap: "idle" | "main" | "render_call" | "no_data" | "rendered" | "render_raised"
    cli_raised,   \* the exception that ended main or generate_treemap ("None" when none did)
    output,       \* the output path: parent directory, report file and what the report shows
    topics_data,  \* analyze_transcript: the value returned
    results_file, \* output/<quarter>_analysis_results.json: absent, or the JSON value it holds
    heatmap,      \* output/<quarter>_sentiment_heatmap.png: absent, or the colour domain and ticks drawn
    cache_file,   \* llm_analysis_cache.json: absent, unreadable, or the JSON value it holds
    last_topics,  \* the topics of the most recent reply analyze_transcript parsed
    raised        \* the exception that left the run ("None" when none did)

seg_vars == <<max_words, chunks, seg_pc>>
run_vars == <<env_key, config, pc, oracle_calls, call, reply, analysis, df, raised>>
chunk_vars == <<results, chunk_idx>>
cli_vars == <<cli_pc, cli_raised, output>>
file_vars == <<results_file, heatmap, cache_file, last_topics>>
an_vars == <<topics_data, file_vars>>

vars == <<text, max_words, chunks, seg_pc,
          env_key, config, pc, oracle_calls, call, reply, analysis, df, raised,
          results, chunk_idx, cli_pc, cli_raised, output, topics_data,
          results_file, heatmap, cache_file, last_topics>>

(***************************************************************************)
(* Bounds                                                                  *)
(***************************************************************************)
MaxTextLen == 6
MaxWords == 3

Chars == {"a", "b", " ", "\n"}
Whitespace == {" ", "\n"}

StringsUpTo(n) == UNION {[1..k -> Chars] : k \in 0..n}

Min(a, b) == IF a < b THEN a ELSE b

(***************************************************************************)
(* Python string primitives                                                *)
(***************************************************************************)
\* str.lstrip() / str.rstrip() / str.strip()
RECURSIVE LStrip(_)
LStrip(s) ==
    IF s = <<>> THEN <<>>
    ELSE IF Head(s) \in Whitespace THEN LStrip(Tail(s)) ELSE s

RECURSIVE RStrip(_)
RStrip(s) ==
    IF s = <<>> THEN <<>>
    ELSE IF s[Len(s)] \in Whitespace THEN RStrip(SubSeq(s, 1, Len(s) - 1)) ELSE s

Strip(s) == RStrip(LStrip(s))

\* str.split("\n\n"): left-to-right, non-overlapping; always at least one piece
RECURSIVE SplitBlankFrom(_, _, _)
SplitBlankFrom(s, i, cur) ==
    IF i > Len(s) THEN <<cur>>
    ELSE IF i < Len(s) /\ s[i] = "\n" /\ s[i + 1] = "\n"
         THEN <<cur>> \o SplitBlankFrom(s, i + 2, <<>>)
         ELSE SplitBlankFrom(s, i + 1, Append(cur, s[i]))

SplitBlank(s) == SplitBlankFrom(s, 1, <<>>)

\* str.split(): runs of whitespace separate words, no empty words
RECURSIVE SplitWordsFrom(_, _, _)
SplitWordsFrom(s, i, cur) ==
    IF i > Len(s) THEN (IF cur = <<>> THEN <<>> ELSE <<cur>>)
    ELSE IF s[i] \in Whitespace
         THEN (IF cur = <<>> THEN <<>> ELSE <<cur>>) \o SplitWordsFrom(s, i + 1, <<>>)
         ELSE SplitWordsFrom(s, i + 1, Append(cur, s[i]))

SplitWords(s) == SplitWordsFrom(s, 1, <<>>)

\* " ".join(words)
RECURSIVE JoinSpace(_)
JoinSpace(ws) ==
    IF ws = <<>> THEN <<>>
    ELSE IF Len(ws) = 1 THEN ws[1]
    ELSE ws[1] \o <<" ">> \o JoinSpace(Tail(ws))

(***************************************************************************)
(* split_into_chunks                                                       *)
(***************************************************************************)
\* paragraphs = [p.strip() for p in text.split("\n\n") if p.strip()]
RECURSIVE StripNonEmpty(_)
StripNonEmpty(ps) ==
    IF ps = <<>> THEN <<>>
    ELSE (IF Strip(Head(ps)) # <<>> THEN <<Strip(Head(ps))>> ELSE <<>>)
         \o StripNonEmpty(Tail(ps))

Paragraphs(t) == StripNonEmpty(SplitBlank(t))

\* mutant: the slice is one word short (words[i : i + max_words - 1])
SliceShort(words, i, mw) == SubSeq(words, i + 1, Min(i + mw - 1, Len(words)))

\* words[i : i + max_words] for the 0-based i
Slice(words, i, mw) == SubSeq(words, i + 1, Min(i + mw, Len(words)))

\* for i in range(0, len(words), max_words): segment = " ".join(...); if segment: append
RECURSIVE ChunkWordsFrom(_, _, _)
ChunkWordsFrom(words, i, mw) ==
    IF i >= Len(words) THEN <<>>
    ELSE LET segment == JoinSpace(Slice(words, i, mw))
         IN  (IF segment # <<>> THEN <<segment>> ELSE <<>>)
             \o ChunkWordsFrom(words, i + mw, mw)

RECURSIVE ChunkParagraphs(_, _)
ChunkParagraphs(ps, mw) ==
    IF ps = <<>> THEN <<>>
    ELSE ChunkWordsFrom(SplitWords(Head(ps)), 0, mw) \o ChunkParagraphs(Tail(ps), mw)

\* mutant: the paragraph split is skipped, the whole text is cut every max_words words
split_into_chunks_flat(t, mw) == ChunkWordsFrom(SplitWords(t), 0, mw)

split_into_chunks(t, mw) == ChunkParagraphs(Paragraphs(t), mw)

(***************************************************************************)
(* Numbers: Python floats as exact rationals                               *)
(***************************************************************************)
Abs(n) == IF n < 0 THEN -n ELSE n

RECURSIVE Gcd(_, _)
Gcd(a, b) == IF b = 0 THEN a ELSE Gcd(b, a % b)

\* n / d for d # 0, in lowest terms with a positive denominator
Rat(n, d) ==
    LET g == Gcd(Abs(n), Abs(d))
        sg == IF d < 0 THEN -1 ELSE 1
    IN  <<(sg * n) \div g, (sg * d) \div g>>

RatLe(a, b) == a[1] * b[2] <= b[1] * a[2]
RatLt(a, b) == a[1] * b[2] < b[1] * a[2]
RatDivInt(a, n) == Rat(a[1], a[2] * n)

Zero == <<0, 1>>
One == <<1, 1>>
MinusOne == <<-1, 1>>

(***************************************************************************)
(* The oracle's reply: message content as text around a JSON body          *)
(***************************************************************************)
JMissing == [t |-> "missing"]                   \* the key is absent
JNull == [t |-> "null"]
JNum(n, d) == [t |-> "num", n |-> n, d |-> d]   \* the JSON number n/d
JStr(s) == [t |-> "str", s |-> s]
JArr(items) == [t |-> "arr", items |-> items]
JObj(topics, topic, sentiment, minutes, words, rationale) ==
    [t |-> "obj", topics |-> topics, topic |-> topic, sentiment |-> sentiment,
     minutes |-> minutes, words |-> words, rationale |-> rationale,
     word_count |-> JMissing, reasoning |-> JMissing]
\* an object with the keys the EarningsCallAnalyzer prompt asks for
AObj(topic, sentiment, word_count, reasoning) ==
    [t |-> "obj", topics |-> JMissing, topic |-> topic, sentiment |-> sentiment,
     minutes |-> JMissing, words |-> JMissing, rationale |-> JMissing,
     word_count |-> word_count, reasoning |-> reasoning]
NotJson == [t |-> "notjson"]                    \* text that is no JSON document

\* message.content: None, or the text pre + body + post
ContentNone == [t |-> "none", pre |-> <<>>, body |-> JNull, post |-> <<>>]
ContentText(pre, body, post) == [t |-> "text", pre |-> pre, body |-> body, post |-> post]

IsBlank(s) == \A i \in 1..Len(s) : s[i] \in Whitespace

\* the strings float() and int() accept, with their values
NumericStrings == {"0.5", "2"}
StrValue(s) == IF s = "0.5" THEN <<1, 2>> ELSE <<2, 1>>

\* mutant: the JSON body is accepted whatever text surrounds it
LoadsAnywhere(content) ==
    IF content.t = "none" THEN [ok |-> FALSE, exc |-> "TypeError", val |-> JNull]
    ELSE IF content.body.t # "notjson"
         THEN [ok |-> TRUE, exc |-> "None", val |-> content.body]
         ELSE [ok |-> FALSE, exc |-> "JSONDecodeError", val |-> JNull]

\* json.loads(content): the document may only be surrounded by whitespace
Loads(content) ==
    IF content.t = "none" THEN [ok |-> FALSE, exc |-> "TypeError", val |-> JNull]
    ELSE IF IsBlank(content.pre) /\ IsBlank(content.post) /\ content.body.t # "notjson"
         THEN [ok |-> TRUE, exc |-> "None", val |-> content.body]
         ELSE [ok |-> FALSE, exc |-> "JSONDecodeError", val |-> JNull]

(***************************************************************************)
(* pydantic models: TopicAnalysis, FullTranscriptAnalysis, ChunkAnalysis   *)
(***************************************************************************)
\* a float field: a JSON number, or a string float() accepts
IsFloat(v) == v.t = "num" \/ (v.t = "str" /\ v.s \in NumericStrings)
FloatOf(v) == IF v.t = "num" THEN Rat(v.n, v.d) ELSE StrValue(v.s)

\* an int field: a number without fractional part, or a string int() accepts
IsInt(v) == (v.t = "num" /\ Rat(v.n, v.d)[2] = 1) \/ (v.t = "str" /\ v.s = "2")
IntOf(v) == FloatOf(v)[1]

\* mutant: the sentiment is clamped into [-1, 1] when it is read
SentimentClamped(v) ==
    LET r == FloatOf(v)
    IN  IF RatLt(One, r) THEN One ELSE IF RatLt(r, MinusOne) THEN MinusOne ELSE r

\* sentiment: float, the value the field holds after coercion
SentimentOf(v) == FloatOf(v)

\* mutant: the range constraint of the sentiment field is not enforced
InRangeAny(r) == TRUE

\* Field(..., ge=-1.0, le=1.0)
InRange(r) == RatLe(MinusOne, r) /\ RatLe(r, One)

\* a rationale the oracle supplied / one the client wrote on a failure
OracleRationale(s) == [kind |-> "oracle", exc |-> "None", text |-> s, raw |-> ContentNone]

\* TopicAnalysis(**item) validates
ValidTopic(item) ==
    /\ item.t = "obj"
    /\ item.topic.t = "str"
    /\ IsFloat(item.sentiment) /\ InRange(SentimentOf(item.sentiment))
    /\ IsFloat(item.minutes)
    /\ IsInt(item.words)
    /\ item.rationale.t = "str"

TopicOf(item) ==
    [topic |-> item.topic.s, sentiment |-> SentimentOf(item.sentiment),
     minutes |-> FloatOf(item.minutes), words |-> IntOf(item.words),
     rationale |-> OracleRationale(item.rationale.s)]

\* mutant: invalid items are dropped and the valid ones kept
ValidateKeepValid(data) ==
    IF data.t # "obj" THEN [ok |-> FALSE, exc |-> "TypeError", topics |-> <<>>]
    ELSE IF data.topics.t = "arr"
         THEN [ok |-> TRUE, exc |-> "None",
               topics |-> LET valid == SelectSeq(data.topics.items, ValidTopic)
                          IN  [i \in 1..Len(valid) |-> TopicOf(valid[i])]]
         ELSE [ok |-> FALSE, exc |-> "ValidationError", topics |-> <<>>]

\* FullTranscriptAnalysis(**data): TypeError unless data is a mapping,
\* ValidationError unless topics is a list of valid TopicAnalysis items
Validate(data) ==
    IF data.t # "obj" THEN [ok |-> FALSE, exc |-> "TypeError", topics |-> <<>>]
    ELSE IF /\ data.topics.t = "arr"
            /\ \A i \in 1..Len(data.topics.items) : ValidTopic(data.topics.items[i])
         THEN [ok |-> TRUE, exc |-> "None",
               topics |-> [i \in 1..Len(data.topics.items) |-> TopicOf(data.topics.items[i])]]
         ELSE [ok |-> FALSE, exc |-> "ValidationError", topics |-> <<>>]

\* the try block of analyze_full_transcript / analyze_with_custom_topics
ParseReply(content) ==
    LET l == Loads(content)
    IN  IF l.ok THEN Validate(l.val) ELSE [ok |-> FALSE, exc |-> l.exc, topics |-> <<>>]

(***************************************************************************)
(* LLMClient: fallbacks of the whole-transcript entry points               *)
(***************************************************************************)
ErrorRationale(exc, txt, raw) == [kind |-> "AnalysisError", exc |-> exc, text |-> txt, raw |-> raw]

\* the number of characters of a JSON number's text: sign, integer digits and,
\* unless the number is whole, the point and the decimals
RECURSIVE Digits(_)
Digits(n) == IF n < 10 THEN 1 ELSE 1 + Digits(n \div 10)

Decimals(d) ==
    CHOOSE k \in 1..6 : (10 ^ k) % d = 0 /\ \A j \in 1..(k - 1) : (10 ^ j) % d # 0

NumLen(n, d) ==
    LET r == Rat(n, d)
    IN  (IF r[1] < 0 THEN 1 ELSE 0) + Digits(Abs(r[1]) \div r[2])
            + (IF r[2] = 1 THEN 0 ELSE 1 + Decimals(r[2]))

\* the keys of a JSON object, in the order of the text
JsonKeys ==
    <<"topics", "topic", "sentiment", "minutes", "words", "rationale", "word_count",
      "reasoning">>

\* len() of the text of a JSON value, written with ", " between elements and
\* ": " after a key; text that is no JSON document counts as the 8 characters
\* of "not json"
RECURSIVE JsonLen(_)
RECURSIVE SumLen(_, _)
SumLen(lens, k) == IF k = 0 THEN 0 ELSE lens[k] + SumLen(lens, k - 1)

JsonLen(v) ==
    CASE v.t = "null" -> 4
      [] v.t = "num" -> NumLen(v.n, v.d)
      [] v.t = "str" -> Len(v.s) + 2
      [] v.t = "arr" ->
            LET lens == [i \in 1..Len(v.items) |-> JsonLen(v.items[i])]
            IN  2 + SumLen(lens, Len(lens)) + (IF lens = <<>> THEN 0 ELSE 2 * (Len(lens) - 1))
      [] v.t = "obj" ->
            LET present == SelectSeq(JsonKeys, LAMBDA key : v[key].t # "missing")
                lens == [i \in 1..Len(present) |->
                            Len(present[i]) + 4 + JsonLen(v[present[i]])]
            IN  2 + SumLen(lens, Len(lens)) + (IF lens = <<>> THEN 0 ELSE 2 * (Len(lens) - 1))
      [] OTHER -> 8

\* len(content) of a content that is text
ContentLen(content) == Len(content.pre) + JsonLen(content.body) + Len(content.post)

\* the slice bound of content[:200]
RawChars == 200

\* content[:200]: the content itself while it has at most 200 characters, its
\* first 200 characters otherwise
RawSlice(content) ==
    IF ContentLen(content) <= RawChars THEN content
    ELSE [t |-> "prefix", chars |-> RawChars, of |-> content]

\* analyze_full_transcript, except branch: one generic record
FallbackFull(c, exc, content) ==
    << [topic |-> "Full Transcript Analysis", sentiment |-> Zero,
        minutes |-> c.total_minutes, words |-> c.total_words,
        rationale |-> ErrorRationale(exc, "Raw", RawSlice(content))] >>

\* mutant: every fallback record gets the whole transcript's minutes
FallbackMinutesWhole(total_minutes, n) == total_minutes

\* total_minutes / len(custom_topics)
FallbackMinutes(total_minutes, n) == RatDivInt(total_minutes, n)

\* mutant: the quotient is rounded up
FallbackWordsCeil(total_words, n) == (total_words + n - 1) \div n

\* total_words // len(custom_topics)
FallbackWords(total_words, n) == total_words \div n

\* analyze_with_custom_topics, except branch: one record per requested topic
FallbackCustom(topics, c, exc) ==
    [i \in 1..Len(topics) |->
        [topic |-> topics[i], sentiment |-> Zero,
         minutes |-> FallbackMinutes(c.total_minutes, Len(topics)),
         words |-> FallbackWords(c.total_words, Len(topics)),
         rationale |-> ErrorRationale(exc, "Using fallback values", ContentNone)]]

(***************************************************************************)
(* run_pipeline: DataFrame rows, sort by minutes, head(max_topics)         *)
(***************************************************************************)
\* numpy compares the float keys of two rows with <
KeyLess(a, b) == RatLt(a.minutes, b.minutes)

\* npysort: a run of at most SMALL_QUICKSORT + 1 elements is sorted by insertion
SMALL_QUICKSORT == 16

SwapAt(s, i, j) == [s EXCEPT ![i] = s[j], ![j] = s[i]]

\* the insertion loop of npysort: an element moves left past the elements
\* whose key is greater than its own, so equal keys keep their order
RECURSIVE InsertAscending(_, _)
InsertAscending(sorted, r) ==
    IF sorted = <<>> THEN <<r>>
    ELSE IF KeyLess(r, sorted[Len(sorted)])
         THEN InsertAscending(SubSeq(sorted, 1, Len(sorted) - 1), r) \o <<sorted[Len(sorted)]>>
         ELSE sorted \o <<r>>

RECURSIVE InsertionSort(_)
InsertionSort(s) ==
    IF s = <<>> THEN <<>>
    ELSE InsertAscending(InsertionSort(SubSeq(s, 1, Len(s) - 1)), s[Len(s)])

\* the quicksort partition of npysort, first part: the median of the first,
\* middle and last element becomes the pivot and is parked at the last but one
\* position
MedianOfThree(s) ==
    LET n == Len(s)
        m == 1 + (n - 1) \div 2
        s1 == IF KeyLess(s[m], s[1]) THEN SwapAt(s, m, 1) ELSE s
        s2 == IF KeyLess(s1[n], s1[m]) THEN SwapAt(s1, n, m) ELSE s1
        s3 == IF KeyLess(s2[m], s2[1]) THEN SwapAt(s2, m, 1) ELSE s2
    IN  SwapAt(s3, m, n - 1)

\* second part: the two scans, "do ++pi while v[pi] < vp" and
\* "do --pj while vp < v[pj]", swapping until they meet; an element equal to
\* the pivot stops both scans and is swapped
RECURSIVE PartitionScan(_, _, _)
PartitionScan(s, pi, pj) ==
    LET vp == s[Len(s) - 1]
        i == CHOOSE k \in (pi + 1)..(Len(s) - 1) :
                /\ ~KeyLess(s[k], vp)
                /\ \A h \in (pi + 1)..(k - 1) : KeyLess(s[h], vp)
        j == CHOOSE k \in 1..(pj - 1) :
                /\ ~KeyLess(vp, s[k])
                /\ \A h \in (k + 1)..(pj - 1) : KeyLess(vp, s[h])
    IN  IF i >= j THEN [s |-> SwapAt(s, i, Len(s) - 1), pi |-> i]
        ELSE PartitionScan(SwapAt(s, i, j), i, j)

\* ndarray.argsort(kind="quicksort") in numpy's generic kernel (npysort
\* aquicksort), applied to the rows instead of their positions: partition
\* while a run has more than SMALL_QUICKSORT + 1 elements, insertion sort
\* below.  The recursion depth at which the kernel changes to heapsort is not
\* reached by frames of this size.
RECURSIVE aquicksort(_)
aquicksort(s) ==
    IF Len(s) - 1 > SMALL_QUICKSORT
    THEN LET p == PartitionScan(MedianOfThree(s), 1, Len(s) - 1)
         IN  aquicksort(SubSeq(p.s, 1, p.pi - 1)) \o <<p.s[p.pi]>>
                 \o aquicksort(SubSeq(p.s, p.pi + 1, Len(s)))
    ELSE InsertionSort(s)

\* mutant: the keys and the indexer are not reversed
ReversedNot(s) == s

\* [::-1]
Reversed(s) == [k \in 1..Len(s) |-> s[Len(s) + 1 - k]]

WithoutRow(rows, k) == SubSeq(rows, 1, k - 1) \o SubSeq(rows, k + 1, Len(rows))

\* the orders of the rows with non-increasing minutes: rows of equal minutes
\* in any order
RECURSIVE DescendingArrangements(_)
DescendingArrangements(rows) ==
    IF rows = <<>> THEN {<<>>}
    ELSE LET top == {k \in 1..Len(rows) : \A h \in 1..Len(rows) : ~KeyLess(rows[k], rows[h])}
         IN  UNION { { <<rows[k]>> \o rest : rest \in DescendingArrangements(WithoutRow(rows, k)) } :
                     k \in top }

\* df.sort_values("minutes", ascending=False) with the default kind="quicksort":
\* pandas reverses the column, takes numpy's argsort and reverses the indexer
\* (nargsort).  quicksort is not a stable kind: which kernel sorts depends on
\* the numpy build and the processor (the generic aquicksort, or a vectorised
\* one), and the kernels differ in where they leave equal keys.  The set of
\* frames the call can return: the generic kernel's, and every other order
\* with non-increasing minutes
SortByMinutesDesc(rows) ==
    {Reversed(aquicksort(Reversed(rows)))} \cup DescendingArrangements(rows)

\* mutant: the last n rows are kept (df.tail)
TailRows(rows, n) == SubSeq(rows, Len(rows) - Min(n, Len(rows)) + 1, Len(rows))

\* df.head(n): the first n rows, or all but the last -n rows when n < 0
HeadRows(rows, n) ==
    IF n >= 0 THEN SubSeq(rows, 1, Min(n, Len(rows)))
    ELSE IF Len(rows) + n >= 1 THEN SubSeq(rows, 1, Len(rows) + n) ELSE <<>>

\* lines 59-80 of run_pipeline: rows in analysis order, sorted, capped; the set
\* of frames the run can return
BuildFrames(topics, max_topics) ==
    IF topics = <<>> THEN {<<>>}
    ELSE { IF Len(sorted) > max_topics THEN HeadRows(sorted, max_topics) ELSE sorted :
             sorted \in SortByMinutesDesc(topics) }

(***************************************************************************)
(* report.py: the treemap report                                           *)
(***************************************************************************)
\* the minimum of a non-empty sequence of floats (sentiments.min())
MinSentiment(rows) ==
    CHOOSE m \in {rows[k].sentiment : k \in 1..Len(rows)} :
        \A k \in 1..Len(rows) : RatLe(m, rows[k].sentiment)

\* sentiment_colorscale: min_s and max_s are computed and not used; the five
\* red-white-green stops and the limits -1.0, 1.0 are returned for every input
sentiment_colorscale(rows) ==
    [colorscale |-> "diverging", cmin |-> MinusOne, cmax |-> One]

\* df.empty
FrameNeverEmpty(frame) == FALSE

FrameEmpty(frame) == frame = <<>>

\* the output path before a report is rendered
NoOutput ==
    [mkdir |-> FALSE, written |-> FALSE, colorscale |-> "none", range_color |-> <<Zero, Zero>>,
     rows |-> 0]

\* the report written by lines 26-232: the figure's colour scale comes from
\* sentiment_colorscale, its range_color is the literal (-1.0, 1.0), and the
\* table has one line per row of the frame
Rendered(frame) ==
    [mkdir |-> TRUE, written |-> TRUE,
     colorscale |-> sentiment_colorscale(frame).colorscale,
     range_color |-> <<MinusOne, One>>, rows |-> Len(frame)]

\* px.treemap weights each label's colour by its minutes: it can raise when
\* the minutes of a label do not sum to a positive number
PlotMayFail(frame) ==
    \E k \in 1..Len(frame) : RatLe(frame[k].minutes, Zero)

\* mutant: the emptiness check comes after the directory and the file are made
generate_treemap_late_check(frame, out) ==
    IF FrameEmpty(frame) THEN {[exc |-> "ValueError", out |-> Rendered(frame)]}
    ELSE {[exc |-> "None", out |-> Rendered(frame)]}

\* generate_treemap(df, output_path): the outcomes of the call, each the
\* exception raised ("None" for a return) and the output path afterwards
generate_treemap(frame, out) ==
    IF FrameEmpty(frame) THEN {[exc |-> "ValueError", out |-> out]}
    ELSE {[exc |-> "None", out |-> Rendered(frame)]}
         \cup (IF PlotMayFail(frame) THEN {[exc |-> "ZeroDivisionError", out |-> out]} ELSE {})

(***************************************************************************)
(* Inputs                                                                  *)
(***************************************************************************)
MaxItems == 2

\* transcripts of 0, 0, 1, 2 and 3 words
Transcripts ==
    { <<>>, <<" ", "\n">>, <<"a">>, <<"a", " ", "b">>, <<"a", "\n", "\n", "b", " ", "a">> }

NoTopics == [given |-> FALSE, list |-> <<>>]     \* custom_topics = None
TopicList(l) == [given |-> TRUE, list |-> l]

Configs ==
    [ wpm : {0, 1, 2},
      max_topics : {1, 2},
      custom_topics : {NoTopics, TopicList(<<>>), TopicList(<<"B", "A">>)} ]

Item(topic, sentiment, minutes) ==
    JObj(JMissing, topic, sentiment, minutes, JNum(1, 1), JStr("r"))

\* items of a topics array: valid ones, sentiments out of range or given as
\* strings, a missing field, negative minutes and words, and an element that
\* is no object
Items ==
    { Item(JStr("A"), JNum(1, 2), JNum(2, 1)),
      Item(JStr("B"), JNum(-1, 1), JNum(1, 1)),
      Item(JStr("B"), JNum(3, 2), JNum(3, 1)),
      Item(JStr("A"), JNum(-3, 2), JNum(1, 1)),
      Item(JStr("C"), JStr("0.5"), JNum(1, 1)),
      Item(JStr("B"), JStr("high"), JNum(1, 1)),
      Item(JMissing, JNum(0, 1), JNum(1, 1)),
      JObj(JMissing, JStr("A"), JNum(0, 1), JNum(-1, 1), JNum(-1, 1), JStr("r")),
      JNum(1, 1) }

ItemLists == UNION {[1..k -> Items] : k \in 0..MaxItems}

\* a reply with more records than numpy sorts by insertion: LongReplyLen
\* records of falling minutes, but for the second and the tenth, which share
\* the greatest
LongReplyLen == 18

LongLabels ==
    <<"T01", "T02", "T03", "T04", "T05", "T06", "T07", "T08", "T09", "T10",
      "T11", "T12", "T13", "T14", "T15", "T16", "T17", "T18", "T19", "T20">>

LongItemLists ==
    { [k \in 1..LongReplyLen |->
          Item(JStr(LongLabels[k]), JNum(1, 2),
               JNum(IF k \in {2, 10} THEN LongReplyLen + 5 ELSE LongReplyLen + 1 - k, 1))] }

TopicsObj(v) == JObj(v, JMissing, JMissing, JMissing, JMissing, JMissing)

Bodies ==
    { NotJson, JArr(<<>>), JStr("x"), JNum(1, 1), TopicsObj(JMissing), TopicsObj(JStr("x")) }
    \cup { TopicsObj(JArr(l)) : l \in ItemLists \cup LongItemLists }

\* text around the body: none, whitespace, prose before, prose after
Wrappings ==
    { << <<>>, <<>> >>, << <<" ">>, <<"\n">> >>,
      << <<"O", "K", ":", " ">>, <<>> >>, << <<>>, <<" ", "o", "k">> >> }

Contents ==
    {ContentNone} \cup {ContentText(w[1], b, w[2]) : w \in Wrappings, b \in Bodies}

NoData == [t |-> "unset"]    \* analyze_transcript has not returned
NoFile == [t |-> "absent"]   \* the path does not exist
\* a file whose content json.load rejects: empty or a prefix of the JSON, left
\* by a write that broke off after open(path, 'w') truncated the file
Unreadable == [t |-> "unreadable"]
Readable(file) == file # NoFile /\ file # Unreadable
FilesIdle ==
    /\ results_file = NoFile
    /\ heatmap = NoFile
    /\ cache_file = NoFile
    /\ last_topics = NoData
NoCall == [mode |-> "none", total_words |-> 0, total_minutes |-> Zero]
NoReply == [kind |-> "none", content |-> ContentNone]

(***************************************************************************)
(* Segmenter specification: split_into_chunks applied to every bounded text *)
(***************************************************************************)
RunIdle ==
    /\ env_key = TRUE
    /\ config = [wpm |-> 155, max_topics |-> 10, custom_topics |-> NoTopics]
    /\ pc = "idle"
    /\ oracle_calls = 0
    /\ call = NoCall
    /\ reply = NoReply
    /\ analysis = <<>>
    /\ df = <<>>
    /\ raised = "None"
    /\ results = <<>>
    /\ chunk_idx = 0
    /\ cli_pc = "idle"
    /\ cli_raised = "None"
    /\ output = NoOutput
    /\ topics_data = NoData
    /\ FilesIdle

SegInit ==
    /\ text \in StringsUpTo(MaxTextLen)
    /\ max_words \in 1..MaxWords
    /\ chunks = <<>>
    /\ seg_pc = "ready"
    /\ RunIdle

SplitIntoChunks ==
    /\ seg_pc = "ready"
    /\ chunks' = split_into_chunks(text, max_words)
    /\ seg_pc' = "done"
    /\ UNCHANGED <<text, max_words>>
    /\ UNCHANGED <<run_vars, chunk_vars, cli_vars, an_vars>>

SegNext == SplitIntoChunks

SpecSeg == SegInit /\ [][SegNext]_vars

(***************************************************************************)
(* run_pipeline with LLMClient                                             *)
(***************************************************************************)
Init ==
    /\ text \in Transcripts
    /\ max_words = 1 /\ chunks = <<>> /\ seg_pc = "idle"
    /\ env_key \in BOOLEAN
    /\ config \in Configs
    /\ pc = "start"
    /\ oracle_calls = 0
    /\ call = NoCall
    /\ reply = NoReply
    /\ analysis = <<>>
    /\ df = <<>>
    /\ raised = "None"
    /\ results = <<>>
    /\ chunk_idx = 0
    /\ cli_pc = "main"
    /\ cli_raised = "None"
    /\ output = NoOutput
    /\ topics_data = NoData
    /\ FilesIdle

\* mutant: the client is built without looking at the key
LLMClient_init_unchecked(key) == "None"

\* LLMClient.__init__: the exception it raises ("None" when it returns);
\* key is whether OPENAI_API_KEY is set to a non-empty value
LLMClient_init(key) == IF key THEN "None" ELSE "RuntimeError"

\* run_pipeline lines 48-50, LLMClient.__init__
CreateClient ==
    /\ pc = "start"
    /\ IF LLMClient_init(env_key) = "None"
       THEN pc' = "client" /\ raised' = raised
       ELSE pc' = "raised" /\ raised' = LLMClient_init(env_key)
    /\ UNCHANGED <<text, seg_vars, chunk_vars, cli_vars, an_vars, env_key, config, oracle_calls, call, reply, analysis, df>>

\* estimate_minutes(word_count, wpm) = word_count / max(wpm, 1)
estimate_minutes(word_count, wpm) == Rat(word_count, IF wpm > 1 THEN wpm ELSE 1)

\* mutant: the request is always the auto-topic one
analysis_mode_full(custom_topics) == "full"

\* run_pipeline line 52, "if config.custom_topics:": None and [] are falsy
analysis_mode(custom_topics) == IF custom_topics.list # <<>> THEN "custom" ELSE "full"

\* mutant: the division is guarded the way estimate_minutes is
total_minutes_guarded(total_words, wpm) ==
    [exc |-> "None", val |-> estimate_minutes(total_words, wpm)]

\* total_minutes = total_words / wpm, the second statement of both analyze
\* methods: the exception raised ("None" when none) and the value
total_minutes(total_words, wpm) ==
    IF wpm = 0 THEN [exc |-> "ZeroDivisionError", val |-> Zero]
    ELSE [exc |-> "None", val |-> Rat(total_words, wpm)]

\* run_pipeline lines 52-57 up to the client's chat.completions.create call
IssueRequest ==
    /\ pc = "client"
    /\ LET total_words == Len(SplitWords(text))
           tm == total_minutes(total_words, config.wpm)
       IN  IF tm.exc # "None"
           THEN /\ pc' = "raised" /\ raised' = tm.exc
                /\ UNCHANGED <<oracle_calls, call>>
           ELSE /\ call' = [mode |-> analysis_mode(config.custom_topics),
                            total_words |-> total_words, total_minutes |-> tm.val]
                /\ oracle_calls' = oracle_calls + 1
                /\ pc' = "awaiting" /\ raised' = raised
    /\ UNCHANGED <<text, seg_vars, chunk_vars, cli_vars, an_vars, env_key, config, reply, analysis, df>>

\* chat.completions.create raises (network or API failure): nothing catches it
OracleFails ==
    /\ pc = "awaiting"
    /\ reply' = [kind |-> "error", content |-> ContentNone]
    /\ pc' = "raised" /\ raised' = "APIError"
    /\ UNCHANGED <<text, seg_vars, chunk_vars, cli_vars, an_vars, env_key, config, oracle_calls, call, analysis, df>>

\* what the client call returns for a message content: [ok, exc, topics]
ClientResult(cfg, c, content) ==
    LET p == ParseReply(content)
    IN  IF p.ok THEN [ok |-> TRUE, exc |-> "None", topics |-> p.topics]
        ELSE IF c.mode = "custom"
             THEN [ok |-> TRUE, exc |-> "None",
                   topics |-> FallbackCustom(cfg.custom_topics.list, c, p.exc)]
        ELSE IF content.t = "none"
             THEN [ok |-> FALSE, exc |-> "TypeError", topics |-> <<>>]
        ELSE [ok |-> TRUE, exc |-> "None", topics |-> FallbackFull(c, p.exc, content)]

\* the reply arrives: the client's try/except, then run_pipeline lines 59-80
OracleReplies ==
    /\ pc = "awaiting"
    /\ \E content \in Contents :
        LET r == ClientResult(config, call, content)
        IN  /\ reply' = [kind |-> "message", content |-> content]
            /\ IF r.ok
               THEN /\ analysis' = r.topics
                    /\ df' \in BuildFrames(r.topics, config.max_topics)
                    /\ pc' = "done" /\ raised' = raised
               ELSE /\ pc' = "raised" /\ raised' = r.exc
                    /\ UNCHANGED <<analysis, df>>
    /\ UNCHANGED <<text, seg_vars, chunk_vars, cli_vars, an_vars, env_key, config, oracle_calls, call>>

\* cli.main lines 33-39: an empty frame ends the program with the message
\* "No data produced from transcript."; otherwise the report is rendered
CliCheckFrame ==
    /\ pc = "done" /\ cli_pc = "main"
    /\ IF FrameEmpty(df)
       THEN cli_pc' = "no_data" /\ cli_raised' = "SystemExit"
       ELSE cli_pc' = "render_call" /\ cli_raised' = cli_raised
    /\ UNCHANGED <<text, seg_vars, chunk_vars, an_vars, run_vars, output>>

\* generate_treemap(df, output_path, transcript_text) runs
GenerateTreemap ==
    /\ cli_pc = "render_call"
    /\ \E r \in generate_treemap(df, output) :
        /\ output' = r.out
        /\ cli_raised' = r.exc
        /\ cli_pc' = IF r.exc = "None" THEN "rendered" ELSE "render_raised"
    /\ UNCHANGED <<text, seg_vars, chunk_vars, an_vars, run_vars>>

Next == CreateClient \/ IssueRequest \/ OracleFails \/ OracleReplies \/ CliCheckFrame
            \/ GenerateTreemap

Spec == Init /\ [][Next]_vars

(***************************************************************************)
(* LLMClient.analyze_chunks: one request per chunk                         *)
(***************************************************************************)
\* ChunkAnalysis(**data) validates
ValidChunk(data) ==
    /\ data.topic.t = "str"
    /\ IsFloat(data.sentiment) /\ InRange(SentimentOf(data.sentiment))
    /\ data.rationale.t = "str"

\* the try block of the loop body: [ok, exc]
ParseChunkReply(content) ==
    LET l == Loads(content)
    IN  IF ~l.ok THEN [ok |-> FALSE, exc |-> l.exc]
        ELSE IF l.val.t # "obj" THEN [ok |-> FALSE, exc |-> "TypeError"]
        ELSE IF ~ValidChunk(l.val) THEN [ok |-> FALSE, exc |-> "ValidationError"]
        ELSE [ok |-> TRUE, exc |-> "None"]

ChunkOf(data) ==
    [topic |-> data.topic.s, sentiment |-> SentimentOf(data.sentiment),
     rationale |-> OracleRationale(data.rationale.s)]

FallbackChunk(exc, content) ==
    [topic |-> "Uncategorized", sentiment |-> Zero,
     rationale |-> ErrorRationale(exc, "Raw", RawSlice(content))]

ChunkObj(topic, sentiment) ==
    JObj(JMissing, topic, sentiment, JMissing, JMissing, JStr("r"))

ChunkBodies ==
    { NotJson, JArr(<<>>), ChunkObj(JStr("A"), JNum(1, 2)), ChunkObj(JStr("B"), JNum(3, 2)),
      ChunkObj(JMissing, JNum(0, 1)) }

ChunkContents ==
    {ContentNone} \cup {ContentText(w[1], b, w[2]) : w \in Wrappings, b \in ChunkBodies}

ChunkInit ==
    /\ text \in Transcripts
    /\ max_words \in 1..MaxWords
    /\ chunks = split_into_chunks(text, max_words)
    /\ seg_pc = "done"
    /\ env_key = TRUE
    /\ config = [wpm |-> 155, max_topics |-> 10, custom_topics |-> NoTopics]
    /\ pc = "chunk_loop"
    /\ oracle_calls = 0
    /\ call = NoCall
    /\ reply = NoReply
    /\ analysis = <<>>
    /\ df = <<>>
    /\ raised = "None"
    /\ results = <<>>
    /\ chunk_idx = 0
    /\ cli_pc = "idle"
    /\ cli_raised = "None"
    /\ output = NoOutput
    /\ topics_data = NoData
    /\ FilesIdle

\* lines 101-111: the next chunk's request is issued
ChunkRequest ==
    /\ pc = "chunk_loop"
    /\ chunk_idx < Len(chunks)
    /\ oracle_calls' = oracle_calls + 1
    /\ pc' = "chunk_awaiting"
    /\ UNCHANGED <<text, seg_vars, chunk_vars, cli_vars, an_vars, env_key, config, call, reply, analysis, df, raised>>

\* chat.completions.create raises inside the loop: nothing catches it
ChunkOracleFails ==
    /\ pc = "chunk_awaiting"
    /\ reply' = [kind |-> "error", content |-> ContentNone]
    /\ pc' = "raised" /\ raised' = "APIError"
    /\ UNCHANGED <<text, seg_vars, chunk_vars, cli_vars, an_vars, env_key, config, oracle_calls, call, analysis, df>>

\* lines 112-125: the reply is parsed, or replaced by the fallback record; the
\* except branch slices content, which raises TypeError when content is None
ChunkOracleReplies ==
    /\ pc = "chunk_awaiting"
    /\ \E content \in ChunkContents :
        LET p == ParseChunkReply(content)
        IN  /\ reply' = [kind |-> "message", content |-> content]
            /\ IF p.ok
               THEN /\ results' = Append(results, ChunkOf(Loads(content).val))
                    /\ chunk_idx' = chunk_idx + 1
                    /\ pc' = "chunk_loop" /\ raised' = raised
               ELSE IF content.t = "none"
               THEN /\ pc' = "raised" /\ raised' = "TypeError"
                    /\ UNCHANGED chunk_vars
               ELSE /\ results' = Append(results, FallbackChunk(p.exc, content))
                    /\ chunk_idx' = chunk_idx + 1
                    /\ pc' = "chunk_loop" /\ raised' = raised
    /\ UNCHANGED <<text, seg_vars, cli_vars, an_vars, env_key, config, oracle_calls, call, analysis, df>>

\* line 126: return results
ChunksReturn ==
    /\ pc = "chunk_loop"
    /\ chunk_idx = Len(chunks)
    /\ pc' = "done"
    /\ UNCHANGED <<text, seg_vars, chunk_vars, cli_vars, an_vars, env_key, config, oracle_calls, call, reply,
                   analysis, df, raised>>

ChunkNext == ChunkRequest \/ ChunkOracleFails \/ ChunkOracleReplies \/ ChunksReturn

SpecChunks == ChunkInit /\ [][ChunkNext]_vars

(***************************************************************************)
(* EarningsCallAnalyzer: __init__ and analyze_transcript                   *)
(***************************************************************************)
HasChar(s, c) == \E i \in 1..Len(s) : s[i] = c

\* prose with a bracketed citation, "[1] ", before the body
CitedWrapping == << <<"[", "1", "]", " ">>, <<>> >>

AnalyzerWrappings == Wrappings \cup {CitedWrapping}

\* elements of the array the prompt of lines 44-76 asks for: records with a
\* positive, a negative and a zero sentiment, a negative one with no words, a
\* negative one whose word_count is no number, a negative one without
\* reasoning, and an element that is no object
AnalyzerItems ==
    { AObj(JStr("A"), JNum(1, 2), JNum(2, 1), JStr("r")),
      AObj(JStr("B"), JNum(-1, 2), JNum(1, 1), JStr("r")),
      AObj(JStr("C"), JNum(0, 1), JNum(3, 1), JStr("r")),
      AObj(JStr("B"), JNum(-1, 2), JNum(0, 1), JStr("r")),
      AObj(JStr("C"), JNum(-1, 1), JStr("many"), JStr("r")),
      AObj(JStr("A"), JNum(-1, 4), JNum(1, 1), JMissing),
      JNum(1, 1) }

AnalyzerItemLists == UNION {[1..k -> AnalyzerItems] : k \in 0..MaxItems}

AnalyzerBodies == Bodies \cup {JArr(l) : l \in AnalyzerItemLists}

\* the text of the first output message; ContentNone stands for a response
\* with no output, no message content, or a None text
AnalyzerContents ==
    {ContentNone}
    \cup {ContentText(w[1], b, w[2]) : w \in AnalyzerWrappings, b \in AnalyzerBodies}

\* the JSON array that starts at the first "[" of a body and ends at its last
\* "]": the body itself when it is an array, the topics list of an object
HasArray(body) == body.t = "arr" \/ (body.t = "obj" /\ body.topics.t = "arr")

BodyArray(body) == IF body.t = "arr" THEN body ELSE body.topics

\* EarningsCallAnalyzer.__init__: the exceptions it can raise ("None" when it
\* returns); OpenAI(api_key=None) raises OpenAIError when the variable is
\* unset, the check of lines 31-32 raises ValueError when it is set but empty
EarningsCallAnalyzer_init(key) == IF key THEN {"None"} ELSE {"OpenAIError", "ValueError"}

\* lines 128-145: re.search(r'\[.*\]', content, re.DOTALL) takes the text from
\* the first "[" to the last "]" and json.loads parses it; every failure is
\* turned into None by the outer except.  The prose of the model holds
\* brackets only as the citation "[1]", which is a JSON array by itself and
\* makes the match unparseable when more brackets follow it; a body that is
\* no JSON, a string or a number holds no bracket.
ExtractTopics(content) ==
    IF content.t = "none" THEN JNull
    ELSE LET cited == HasChar(content.pre, "[") \/ HasChar(content.post, "]")
         IN  IF ~cited
             THEN (IF HasArray(content.body) THEN BodyArray(content.body) ELSE JNull)
             ELSE (IF HasArray(content.body) THEN JNull ELSE JArr(<<JNum(1, 1)>>))

AnalyzerInit ==
    /\ text \in Transcripts
    /\ max_words = 1 /\ chunks = <<>> /\ seg_pc = "idle"
    /\ env_key \in BOOLEAN
    /\ config = [wpm |-> 155, max_topics |-> 10, custom_topics |-> NoTopics]
    /\ pc = "analyzer_new"
    /\ oracle_calls = 0
    /\ call = NoCall
    /\ reply = NoReply
    /\ analysis = <<>>
    /\ df = <<>>
    /\ raised = "None"
    /\ results = <<>>
    /\ chunk_idx = 0
    /\ cli_pc = "idle"
    /\ cli_raised = "None"
    /\ output = NoOutput
    /\ topics_data = NoData
    /\ FilesIdle

\* analyzer = EarningsCallAnalyzer(name)
ConstructAnalyzer ==
    /\ pc = "analyzer_new"
    /\ \E exc \in EarningsCallAnalyzer_init(env_key) :
        IF exc = "None"
        THEN pc' = "analyzer_ready" /\ raised' = raised
        ELSE pc' = "raised" /\ raised' = exc
    /\ UNCHANGED <<text, seg_vars, chunk_vars, cli_vars, an_vars, env_key, config, oracle_calls,
                   call, reply, analysis, df>>

\* analyze_transcript up to self.client.responses.create
AnalyzerRequest ==
    /\ pc = "analyzer_ready"
    /\ oracle_calls' = oracle_calls + 1
    /\ pc' = "analyzer_awaiting"
    /\ UNCHANGED <<text, seg_vars, chunk_vars, cli_vars, an_vars, env_key, config, call, reply,
                   analysis, df, raised>>

\* responses.create raises: the outer except returns None
AnalyzerOracleFails ==
    /\ pc = "analyzer_awaiting"
    /\ reply' = [kind |-> "error", content |-> ContentNone]
    /\ topics_data' = JNull
    /\ pc' = "analyzer_returned"
    /\ UNCHANGED file_vars
    /\ UNCHANGED <<text, seg_vars, chunk_vars, cli_vars, env_key, config, oracle_calls, call,
                   analysis, df, raised>>

\* the response arrives: lines 99-145
AnalyzerOracleReplies ==
    /\ pc = "analyzer_awaiting"
    /\ \E content \in AnalyzerContents :
        /\ reply' = [kind |-> "message", content |-> content]
        /\ topics_data' = ExtractTopics(content)
    /\ pc' = "analyzer_returned"
    /\ UNCHANGED file_vars
    /\ UNCHANGED <<text, seg_vars, chunk_vars, cli_vars, env_key, config, oracle_calls, call,
                   analysis, df, raised>>

AnalyzerNext ==
    ConstructAnalyzer \/ AnalyzerRequest \/ AnalyzerOracleFails \/ AnalyzerOracleReplies

SpecAnalyzer == AnalyzerInit /\ [][AnalyzerNext]_vars

(***************************************************************************)
(* EarningsCallAnalyzer: save_results, generate_heatmap and main           *)
(***************************************************************************)
\* mutant: main goes on whatever analyze_transcript returned
TruthyAlways(v) == TRUE

\* main, line 422: if topics_data
Truthy(v) == v.t = "arr" /\ v.items # <<>>

\* the keys of a JSON object that are columns of pd.DataFrame(topics_data)
Columns == {"topic", "sentiment", "word_count", "reasoning"}

Cell(item, col) ==
    CASE col = "topic" -> item.topic
      [] col = "sentiment" -> item.sentiment
      [] col = "word_count" -> item.word_count
      [] OTHER -> item.reasoning

\* a column exists when some element has the key
HasColumn(items, col) == \E k \in 1..Len(items) : Cell(items[k], col) # JMissing

\* pd.to_numeric(errors='coerce') leaves NaN for what is no number; an absent
\* key and a null are NaN as well
NotNa(item, col) ==
    IF col \in {"sentiment", "word_count"}
    THEN IsFloat(Cell(item, col))
    ELSE Cell(item, col).t \notin {"missing", "null"}

\* mutant: only the numeric conversion removes rows, word counts are not looked at
CleanRowsKeepEmptyTopics(items) ==
    SelectSeq(items, LAMBDA item :
        \A col \in Columns : HasColumn(items, col) => NotNa(item, col))

\* lines 179-195: to_numeric, dropna, word_count > 0
CleanRows(items) ==
    SelectSeq(items, LAMBDA item :
        /\ \A col \in Columns : HasColumn(items, col) => NotNa(item, col)
        /\ RatLt(Zero, FloatOf(item.word_count)))

\* df['sentiment'].min()
MinRowSentiment(rows) ==
    CHOOSE m \in {FloatOf(rows[k].sentiment) : k \in 1..Len(rows)} :
        \A k \in 1..Len(rows) : RatLe(m, FloatOf(rows[k].sentiment))

\* lines 211-226 and 274-282: the Normalize range and the colour-bar ticks
HeatmapFile(min_sentiment) ==
    [t |-> "png",
     vmin |-> IF RatLe(Zero, min_sentiment) THEN 0 ELSE -1,
     vmax |-> 1,
     ticks |-> IF RatLe(Zero, min_sentiment)
               THEN <<0, <<1, 2>>, 1>>
               ELSE <<-1, 0, 1>>,
     ticklabels |-> IF RatLe(Zero, min_sentiment)
                    THEN <<"Neutral", "Moderately Positive", "Very Positive">>
                    ELSE <<"Very Negative", "Neutral", "Very Positive">>]

\* generate_heatmap(topics_data, title): what it raises ("None" when it
\* returns), whether it returns a frame, and the file it writes (NoFile when
\* it writes none).  An element that is no object, or a list where no element
\* has the key word_count, sentiment or topic, raises when the frame is built
\* or the column is read; savefig can fail on the output directory.
generate_heatmap(data) ==
    IF ~(data.t = "arr" /\ data.items # <<>>)
    THEN {[exc |-> "None", frame |-> FALSE, file |-> NoFile]}
    ELSE IF \E k \in 1..Len(data.items) : data.items[k].t # "obj"
    THEN {[exc |-> "DataError", frame |-> FALSE, file |-> NoFile]}
    ELSE IF ~HasColumn(data.items, "word_count") \/ ~HasColumn(data.items, "sentiment")
    THEN {[exc |-> "KeyError", frame |-> FALSE, file |-> NoFile]}
    ELSE IF CleanRows(data.items) = <<>>
    THEN {[exc |-> "None", frame |-> FALSE, file |-> NoFile]}
    ELSE IF ~HasColumn(data.items, "topic")
    THEN {[exc |-> "KeyError", frame |-> FALSE, file |-> NoFile]}
    ELSE {[exc |-> "None", frame |-> TRUE,
           file |-> HeatmapFile(MinRowSentiment(CleanRows(data.items)))],
          [exc |-> "OSError", frame |-> FALSE, file |-> NoFile]}

\* save_results, lines 157-161: open(output_file, 'w') and json.dump inside
\* one try/except that prints the error.  The file holds the data when the
\* write succeeds, is left as it was when open fails, and is left empty or
\* with a prefix of the JSON when the write breaks off after open
ResultsWrites(file, data) == {data, file, Unreadable}

\* the results file an earlier run left in output/
EarlierResults == JArr(<<AObj(JStr("C"), JNum(0, 1), JNum(3, 1), JStr("r"))>>)

\* main up to the construction of the analyzer: the output directory may hold
\* the results file of an earlier run
MainInit ==
    /\ text \in Transcripts
    /\ max_words = 1 /\ chunks = <<>> /\ seg_pc = "idle"
    /\ env_key \in BOOLEAN
    /\ config = [wpm |-> 155, max_topics |-> 10, custom_topics |-> NoTopics]
    /\ pc = "analyzer_new"
    /\ oracle_calls = 0
    /\ call = NoCall
    /\ reply = NoReply
    /\ analysis = <<>>
    /\ df = <<>>
    /\ raised = "None"
    /\ results = <<>>
    /\ chunk_idx = 0
    /\ cli_pc = "idle"
    /\ cli_raised = "None"
    /\ output = NoOutput
    /\ topics_data = NoData
    /\ results_file \in {NoFile, EarlierResults}
    /\ heatmap = NoFile
    /\ cache_file = NoFile
    /\ last_topics = NoData

\* main, lines 422-426: save_results(topics_data); the run goes on whatever
\* became of the write
MainSaveResults ==
    /\ pc = "analyzer_returned"
    /\ Truthy(topics_data)
    /\ results_file' \in ResultsWrites(results_file, topics_data)
    /\ pc' = "main_saved"
    /\ UNCHANGED <<text, seg_vars, chunk_vars, cli_vars, env_key, config, oracle_calls, call,
                   reply, analysis, df, raised, topics_data, heatmap, cache_file, last_topics>>

\* main, lines 437-438: "Failed to analyze transcript"
MainAnalysisFailed ==
    /\ pc = "analyzer_returned"
    /\ ~Truthy(topics_data)
    /\ pc' = "main_done"
    /\ UNCHANGED <<text, seg_vars, chunk_vars, cli_vars, an_vars, env_key, config, oracle_calls,
                   call, reply, analysis, df, raised>>

\* main, lines 428-436: generate_heatmap; what it raises is caught and printed
\* by main's except
MainGenerateHeatmap ==
    /\ pc = "main_saved"
    /\ \E r \in generate_heatmap(topics_data) :
        /\ heatmap' = IF r.file = NoFile THEN heatmap ELSE r.file
        /\ raised' = r.exc
        /\ pc' = IF r.exc # "None" THEN "main_error"
                 ELSE IF r.frame THEN "main_done" ELSE "main_no_frame"
    /\ UNCHANGED <<text, seg_vars, chunk_vars, cli_vars, env_key, config, oracle_calls, call,
                   reply, analysis, df, topics_data, results_file, cache_file, last_topics>>

MainNext ==
    AnalyzerNext \/ MainSaveResults \/ MainAnalysisFailed \/ MainGenerateHeatmap

SpecMain == MainInit /\ [][MainNext]_vars

\* runs of either program: run_pipeline behind cli.main, or EarningsCallAnalyzer
RunsInit == Init \/ AnalyzerInit

RunsNext == Next \/ AnalyzerNext

SpecRuns == RunsInit /\ [][RunsNext]_vars

(***************************************************************************)
(* TranscriptAnalyzer: analyze_transcript with its cache file, clear_cache  *)
(***************************************************************************)
MaxCalls == 3

\* elements in the format of the prompt of lines 65-71
CacheItems ==
    { AObj(JStr("A"), JNum(1, 2), JNum(2, 1), JMissing),
      AObj(JStr("B"), JNum(-1, 2), JNum(1, 1), JMissing) }

CacheBodies ==
    {NotJson} \cup UNION {{JArr(l) : l \in [1..k -> CacheItems]} : k \in 0..MaxItems}

\* response.choices[0].message.content
CacheContents ==
    {ContentNone}
    \cup {ContentText(w[1], b, w[2]) : w \in AnalyzerWrappings, b \in CacheBodies}

CacheTranscripts == { <<"a">>, <<"a", " ", "b">> }

CallOf(mode, force) ==
    [mode |-> mode, force |-> force, total_words |-> 0, total_minutes |-> Zero]

\* mutant: the cache is consulted when a new analysis is forced
UseCacheWhenForced(force, file) == force /\ file # NoFile

\* line 46: not force_new_analysis and os.path.exists(cache_file)
UseCache(force, file) == ~force /\ file # NoFile

\* lines 99-105: open(cache_file, 'w') and json.dump; a failure is printed as
\* a warning and leaves the file as it was when open failed, unreadable when
\* the write broke off
CacheWrites(file, data) == {data, file, Unreadable}

CacheInit ==
    /\ text \in CacheTranscripts
    /\ max_words = 1 /\ chunks = <<>> /\ seg_pc = "idle"
    /\ env_key = TRUE
    /\ config = [wpm |-> 155, max_topics |-> 10, custom_topics |-> NoTopics]
    /\ pc = "cache_idle"
    /\ oracle_calls = 0
    /\ call = NoCall
    /\ reply = NoReply
    /\ analysis = <<>>
    /\ df = <<>>
    /\ raised = "None"
    /\ results = <<>>
    /\ chunk_idx = 0
    /\ cli_pc = "idle"
    /\ cli_raised = "None"
    /\ output = NoOutput
    /\ topics_data = NoData
    /\ results_file = NoFile
    /\ heatmap = NoFile
    /\ cache_file \in {NoFile} \cup {JArr(<<i>>) : i \in CacheItems}
    /\ last_topics = IF cache_file = NoFile THEN NoData ELSE cache_file

\* clear_cache()
ClearCache ==
    /\ pc = "cache_idle"
    /\ call' = CallOf("clear", FALSE)
    /\ cache_file' = NoFile
    /\ UNCHANGED <<text, seg_vars, chunk_vars, cli_vars, env_key, config, pc, oracle_calls,
                   reply, analysis, df, raised, topics_data, results_file, heatmap, last_topics>>

\* analyze_transcript(transcript, force_new_analysis), lines 43-91: the cached
\* data is returned, or the request is issued
AnalyzeCall ==
    /\ pc = "cache_idle"
    /\ \E transcript \in CacheTranscripts, force \in BOOLEAN :
        /\ text' = transcript
        /\ IF UseCache(force, cache_file) /\ cache_file # Unreadable
           THEN /\ call' = CallOf("cached", force)
                /\ topics_data' = cache_file
                /\ UNCHANGED <<pc, oracle_calls>>
           ELSE /\ oracle_calls < MaxCalls
                /\ call' = CallOf("fresh", force)
                /\ oracle_calls' = oracle_calls + 1
                /\ pc' = "cache_awaiting"
                /\ UNCHANGED topics_data
    /\ UNCHANGED <<seg_vars, chunk_vars, cli_vars, env_key, config, reply, analysis, df, raised,
                   results_file, heatmap, cache_file, last_topics>>

\* chat.completions.create raises: lines 112-114 return None
CacheOracleFails ==
    /\ pc = "cache_awaiting"
    /\ topics_data' = JNull
    /\ pc' = "cache_idle"
    /\ UNCHANGED <<text, seg_vars, chunk_vars, cli_vars, env_key, config, oracle_calls, call,
                   reply, analysis, df, raised, file_vars>>

\* the response arrives: lines 93-114
CacheOracleReplies ==
    /\ pc = "cache_awaiting"
    /\ \E content \in CacheContents :
        /\ topics_data' = ExtractTopics(content)
        /\ IF ExtractTopics(content) = JNull
           THEN UNCHANGED <<cache_file, last_topics>>
           ELSE /\ last_topics' = ExtractTopics(content)
                /\ cache_file' \in CacheWrites(cache_file, ExtractTopics(content))
    /\ pc' = "cache_idle"
    /\ UNCHANGED <<text, seg_vars, chunk_vars, cli_vars, env_key, config, oracle_calls, call,
                   reply, analysis, df, raised, results_file, heatmap>>

CacheNext == ClearCache \/ AnalyzeCall \/ CacheOracleFails \/ CacheOracleReplies

SpecCache == CacheInit /\ [][CacheNext]_vars

(***************************************************************************)
(* Python floats (IEEE 754 binary64), for the custom-topic fallback        *)
(***************************************************************************)
\* the 53-bit significand of a float is kept as two limbs, the upper 26 bits
\* and the lower 27 bits: a positive float is (hi * 2^27 + lo) * 2^exp with
\* 2^25 <= hi < 2^26 and 0 <= lo < 2^27
HiBits == 26
LoBits == 27

RECURSIVE Pow2(_)
Pow2(k) == IF k = 0 THEN 1 ELSE 2 * Pow2(k - 1)

RECURSIVE BitLen(_)
BitLen(n) == IF n = 0 THEN 0 ELSE 1 + BitLen(n \div 2)

FZero == [zero |-> TRUE, hi |-> 0, lo |-> 0, exp |-> 0]
Float(hi, lo, exp) == [zero |-> FALSE, hi |-> hi, lo |-> lo, exp |-> exp]

\* an int 0 <= n < 2^26 as a float
FloatOfInt(n) ==
    IF n = 0 THEN FZero
    ELSE Float(n * Pow2(HiBits - BitLen(n)), 0, BitLen(n) - HiBits - LoBits)

\* round (hi * 2^27 + lo + c / 2^27) * 2^exp, hi of 26 bits, c a limb of 27
\* bits below lo, sticky telling that non-zero digits follow c, to the
\* nearest float, ties to even
RoundLimbs(hi, lo, c, sticky, exp) ==
    LET guard == c \div Pow2(LoBits - 1)
        rest == sticky \/ (c % Pow2(LoBits - 1)) # 0
        up == guard = 1 /\ (rest \/ lo % 2 = 1)
        lo1 == IF up THEN lo + 1 ELSE lo
        hi1 == IF lo1 = Pow2(LoBits) THEN hi + 1 ELSE hi
    IN  IF hi1 = Pow2(HiBits) THEN Float(Pow2(HiBits - 1), 0, exp + 1)
        ELSE Float(hi1, lo1 % Pow2(LoBits), exp)

\* x / d for a float x >= 0 and an int 1 <= d < 16: limb by limb long
\* division, the quotient moved up by its leading zeros, then rounded
FloatDivInt(x, d) ==
    IF x.zero THEN FZero
    ELSE LET q1 == x.hi \div d
             t2 == (x.hi % d) * Pow2(LoBits) + x.lo
             q2 == t2 \div d
             t3 == (t2 % d) * Pow2(LoBits)
             q3 == t3 \div d
             lz == HiBits - BitLen(q1)
             down == Pow2(LoBits - lz)
         IN  RoundLimbs(q1 * Pow2(lz) + q2 \div down,
                        (q2 % down) * Pow2(lz) + q3 \div down,
                        (q3 % down) * Pow2(lz),
                        (t3 % d) # 0,
                        x.exp - lz)

\* p / q for ints p >= 0, q >= 1 (true division)
IntDiv(p, q) == FloatDivInt(FloatOfInt(p), q)

\* x + y for floats x, y >= 0 whose exponents differ by less than 27
FloatAdd(x, y) ==
    IF x.zero THEN y
    ELSE IF y.zero THEN x
    ELSE LET a == IF x.exp >= y.exp THEN x ELSE y
             b == IF x.exp >= y.exp THEN y ELSE x
             cut == Pow2(a.exp - b.exp)
             up == Pow2(LoBits - (a.exp - b.exp))
             c == (b.lo % cut) * up
             lo == a.lo + (b.hi % cut) * up + b.lo \div cut
             hi == a.hi + b.hi \div cut + lo \div Pow2(LoBits)
             low == lo % Pow2(LoBits)
         IN  IF hi >= Pow2(HiBits)
             THEN RoundLimbs(hi \div 2, (hi % 2) * Pow2(LoBits - 1) + low \div 2,
                             (low % 2) * Pow2(LoBits - 1) + c \div 2, c % 2 = 1, a.exp + 1)
             ELSE RoundLimbs(hi, low, c, FALSE, a.exp)

\* the floats of a sequence added from left to right, starting from 0
RECURSIVE FloatSum(_)
FloatSum(xs) ==
    IF xs = <<>> THEN FZero ELSE FloatAdd(FloatSum(SubSeq(xs, 1, Len(xs) - 1)), xs[Len(xs)])

(***************************************************************************)
(* analyze_with_custom_topics: the fallback records in float arithmetic    *)
(***************************************************************************)
MaxTotalWords == 4
MaxWpm == 3
MaxFallbackTopics == 6

TopicNames == <<"A", "B", "C", "D", "E", "F", "G", "H">>

\* a transcript of k words
WordsText(k) == JoinSpace([i \in 1..k |-> <<"a">>])

\* replies that send analyze_with_custom_topics to its except branch
InvalidContents ==
    { ContentNone, ContentText(<<>>, NotJson, <<>>), ContentText(<<>>, JArr(<<>>), <<>>),
      ContentText(<<>>, TopicsObj(JMissing), <<>>) }

\* lines 169-180 with total_minutes a binary64 float
FallbackCustomFloat(topics, c, exc) ==
    [i \in 1..Len(topics) |->
        [topic |-> topics[i], sentiment |-> Zero,
         minutes |-> FloatDivInt(c.total_minutes, Len(topics)),
         words |-> FallbackWords(c.total_words, Len(topics)),
         rationale |-> ErrorRationale(exc, "Using fallback values", ContentNone)]]

\* the state after analyze_with_custom_topics has sent its request
FallbackInit ==
    /\ \E k \in 0..MaxTotalWords, wpm \in 1..MaxWpm, n \in 1..MaxFallbackTopics :
        /\ text = WordsText(k)
        /\ config = [wpm |-> wpm, max_topics |-> 10,
                     custom_topics |-> TopicList(SubSeq(TopicNames, 1, n))]
        /\ call = [mode |-> "custom", total_words |-> Len(SplitWords(WordsText(k))),
                   total_minutes |-> IntDiv(Len(SplitWords(WordsText(k))), wpm)]
    /\ max_words = 1 /\ chunks = <<>> /\ seg_pc = "idle"
    /\ env_key = TRUE
    /\ pc = "awaiting"
    /\ oracle_calls = 1
    /\ reply = NoReply
    /\ analysis = <<>>
    /\ df = <<>>
    /\ raised = "None"
    /\ results = <<>>
    /\ chunk_idx = 0
    /\ cli_pc = "idle"
    /\ cli_raised = "None"
    /\ output = NoOutput
    /\ topics_data = NoData
    /\ FilesIdle

\* the reply cannot be parsed or validated: lines 164-180
CustomReplyInvalid ==
    /\ pc = "awaiting"
    /\ \E content \in InvalidContents :
        /\ ~ParseReply(content).ok
        /\ reply' = [kind |-> "message", content |-> content]
        /\ analysis' = FallbackCustomFloat(config.custom_topics.list, call,
                                           ParseReply(content).exc)
    /\ pc' = "returned"
    /\ UNCHANGED <<text, seg_vars, chunk_vars, cli_vars, an_vars, env_key, config, oracle_calls,
                   call, df, raised>>

FallbackNext == CustomReplyInvalid

SpecFallback == FallbackInit /\ [][FallbackNext]_vars

(***************************************************************************)
(* generate_treemap called on its own with any frame                       *)
(***************************************************************************)
MaxRows == 3

ReportRow(topic, sentiment) ==
    [topic |-> topic, sentiment |-> sentiment, minutes |-> One, words |-> 1,
     rationale |-> OracleRationale("r")]

ReportRows ==
    { ReportRow("A", Rat(1, 5)), ReportRow("B", Rat(1, 2)), ReportRow("C", Rat(9, 10)),
      ReportRow("D", Rat(-1, 10)), ReportRow("E", Rat(2, 5)) }

ReportFrames == UNION {[1..k -> ReportRows] : k \in 0..MaxRows}

ReportInit ==
    /\ text \in {<<"a">>}
    /\ max_words = 1 /\ chunks = <<>> /\ seg_pc = "idle"
    /\ env_key = TRUE
    /\ config = [wpm |-> 155, max_topics |-> 10, custom_topics |-> NoTopics]
    /\ pc = "idle"
    /\ oracle_calls = 0
    /\ call = NoCall
    /\ reply = NoReply
    /\ analysis = <<>>
    /\ df \in ReportFrames
    /\ raised = "None"
    /\ results = <<>>
    /\ chunk_idx = 0
    /\ cli_pc = "render_call"
    /\ cli_raised = "None"
    /\ output = NoOutput
    /\ topics_data = NoData
    /\ FilesIdle

ReportNext == GenerateTreemap

SpecReport == ReportInit /\ [][ReportNext]_vars

(***************************************************************************)
(* Claims                                                                  *)
(***************************************************************************)
\* the words of each paragraph of the text, in order
ParaWords == [p \in 1..Len(Paragraphs(text)) |-> SplitWords(Paragraphs(text)[p])]

\* C1: joining the chunks of split_into_chunks(text, max_words) with whitespace
\* and splitting on whitespace gives exactly the word sequence of text.
C1_ChunksKeepWords ==
    seg_pc = "done" => SplitWords(JoinSpace(chunks)) = SplitWords(text)

C1_Witness ==
    /\ seg_pc = "done"
    /\ Len(chunks) >= 2
    /\ Len(Paragraphs(text)) >= 2
    /\ \E k \in 1..Len(chunks) : Len(SplitWords(chunks[k])) >= 2

\* C2: every chunk is non-empty, has at most max_words words, and is the
\* slice of one paragraph's words that starts at a multiple of max_words (so it
\* never spans a paragraph boundary, and only a paragraph's last chunk may have
\* fewer than max_words words).
C2_ChunksWithinParagraphs ==
    seg_pc = "done" =>
        \A k \in 1..Len(chunks) :
            LET ws == SplitWords(chunks[k])
            IN  /\ chunks[k] # <<>>
                /\ ws # <<>>
                /\ Len(ws) <= max_words
                /\ \E p \in 1..Len(ParaWords) :
                     \E j \in 0..Len(ParaWords[p]) :
                        /\ j % max_words = 0
                        /\ j + Len(ws) <= Len(ParaWords[p])
                        /\ ws = SubSeq(ParaWords[p], j + 1, j + Len(ws))
                        /\ (Len(ws) < max_words => j + Len(ws) = Len(ParaWords[p]))

C2_Witness ==
    /\ seg_pc = "done"
    /\ Len(ParaWords) >= 2
    /\ \E p \in 1..Len(ParaWords) : Len(ParaWords[p]) > max_words
    /\ \E k \in 1..Len(chunks) : Len(SplitWords(chunks[k])) = max_words

\* C3: with an empty or whitespace-only transcript (credential set, valid
\* words_per_minute) the run issues no oracle request and produces no result:
\* it ends in the NoContent error.
C3_BlankTranscriptNoOracle ==
    (IsBlank(text) /\ env_key /\ config.wpm # 0) =>
        (oracle_calls = 0 /\ pc # "done" /\ (pc = "raised" => raised = "NoContent"))

\* a reply that is no JSON document, or JSON that is not an object holding a
\* topics list of objects with a topic label
NotExpectedShape(content) ==
    \/ ~IsBlank(content.pre) \/ ~IsBlank(content.post)
    \/ content.body.t # "obj"
    \/ content.body.topics.t # "arr"
    \/ \E i \in 1..Len(content.body.topics.items) :
          \/ content.body.topics.items[i].t # "obj"
          \/ content.body.topics.items[i].topic.t = "missing"

FailureExc == {"JSONDecodeError", "TypeError", "ValidationError"}

\* C4: a text reply to analyze_full_transcript that is not JSON of the expected
\* shape gives exactly one fallback record with sentiment 0.0 and a rationale
\* naming the failure, and run_pipeline returns it without raising.
C4_MalformedReplyFallback ==
    (call.mode = "full" /\ reply.kind = "message" /\ reply.content.t = "text"
        /\ NotExpectedShape(reply.content)) =>
        /\ pc = "done" /\ raised = "None"
        /\ Len(analysis) = 1
        /\ analysis[1].sentiment = Zero
        /\ analysis[1].rationale.kind = "AnalysisError"
        /\ analysis[1].rationale.exc \in FailureExc
        /\ df = analysis

C4_Witness ==
    /\ pc = "done" /\ call.mode = "full"
    /\ reply.kind = "message" /\ reply.content.t = "text"
    /\ reply.content.body = NotJson /\ reply.content.pre = <<>>
    /\ Len(df) = 1 /\ df[1].rationale.exc = "JSONDecodeError"

\* C5: a reply to analyze_with_custom_topics that cannot be parsed or validated
\* gives one record per requested topic, in the caller's order, each with
\* sentiment 0.0, minutes = total_minutes / number of topics, and a rationale
\* noting the failure.
C5_CustomFallbackPerTopic ==
    (call.mode = "custom" /\ reply.kind = "message" /\ ~ParseReply(reply.content).ok) =>
        LET topics == config.custom_topics.list
        IN  /\ pc = "done"
            /\ Len(analysis) = Len(topics)
            /\ \A i \in 1..Len(topics) :
                /\ analysis[i].topic = topics[i]
                /\ analysis[i].sentiment = Zero
                /\ analysis[i].minutes[1] * Len(topics) * call.total_minutes[2]
                     = call.total_minutes[1] * analysis[i].minutes[2]
                /\ analysis[i].rationale.kind = "AnalysisError"
                /\ analysis[i].rationale.exc \in FailureExc

C5_Witness ==
    /\ pc = "done" /\ call.mode = "custom"
    /\ reply.kind = "message" /\ reply.content.body = NotJson
    /\ call.total_words = 3
    /\ Len(analysis) = 2 /\ analysis[1].topic = "B" /\ analysis[2].topic = "A"
    /\ analysis[1].minutes # call.total_minutes

\* C6: when the oracle request itself fails in whole-transcript mode, the call
\* returns a fallback result, no exception leaves the client, and run_pipeline
\* yields a non-empty result.
C6_TransportFailureAbsorbed ==
    (call.mode \in {"full", "custom"} /\ reply.kind = "error") =>
        (pc = "done" /\ raised = "None" /\ df # <<>>)

\* C7: analyze_chunks returns one ChunkAnalysis per chunk, in order, and a
\* failure on one chunk (transport failure or unparseable reply) becomes a
\* fallback for that chunk only: every chunk's request is still made.
C7_EveryChunkAnswered ==
    (pc \in {"done", "raised"} /\ seg_pc = "done") =>
        /\ pc = "done" /\ raised = "None"
        /\ Len(results) = Len(chunks)
        /\ oracle_calls = Len(chunks)

\* a sentiment that is a number outside [-1, 1] or a non-numeric string
BadSentiment(v) ==
    \/ (v.t = "num" /\ (v.n > v.d \/ v.n < -v.d))
    \/ (v.t = "str" /\ v.s \notin NumericStrings)

\* a JSON reply whose topics list holds an item with such a sentiment
HasBadSentiment(content) ==
    /\ content.t = "text" /\ IsBlank(content.pre) /\ IsBlank(content.post)
    /\ content.body.t = "obj" /\ content.body.topics.t = "arr"
    /\ \E i \in 1..Len(content.body.topics.items) :
          /\ content.body.topics.items[i].t = "obj"
          /\ BadSentiment(content.body.topics.items[i].sentiment)

\* C8: a reply holding a sentiment that is out of [-1, 1] or a non-numeric
\* string is invalid: the call returns the fallback result (every record is a
\* fallback record with sentiment 0.0), no clamped value appears.
C8_BadSentimentFallsBack ==
    (reply.kind = "message" /\ HasBadSentiment(reply.content)) =>
        /\ pc = "done"
        /\ Len(analysis) =
             (IF call.mode = "custom" THEN Len(config.custom_topics.list) ELSE 1)
        /\ \A i \in 1..Len(analysis) :
              /\ analysis[i].rationale.kind = "AnalysisError"
              /\ analysis[i].rationale.exc = "ValidationError"
              /\ analysis[i].sentiment = Zero

C8_Witness ==
    /\ pc = "done" /\ call.mode = "full"
    /\ reply.kind = "message" /\ HasBadSentiment(reply.content)
    /\ Len(reply.content.body.topics.items) = 2
    /\ \A i \in 1..2 : reply.content.body.topics.items[i].t = "obj"
    /\ \E i \in 1..2 : reply.content.body.topics.items[i].sentiment = JNum(3, 2)
    /\ \E i \in 1..2 : reply.content.body.topics.items[i].sentiment = JNum(1, 2)
    /\ Len(df) = 1

\* clip(r) to [-1, 1]
Clip(r) == IF RatLt(One, r) THEN One ELSE IF RatLt(r, MinusOne) THEN MinusOne ELSE r

\* a JSON reply of well-formed records with numeric sentiments, no more than max_topics
NumericReply(content) ==
    /\ content.t = "text" /\ IsBlank(content.pre) /\ IsBlank(content.post)
    /\ content.body.t = "obj" /\ content.body.topics.t = "arr"
    /\ Len(content.body.topics.items) <= config.max_topics
    /\ \A i \in 1..Len(content.body.topics.items) :
          /\ content.body.topics.items[i].t = "obj"
          /\ content.body.topics.items[i].topic.t = "str"
          /\ content.body.topics.items[i].sentiment.t = "num"

\* C9: a record whose sentiment lies outside [-1, 1] is never rejected: it is
\* kept in the result with its sentiment clipped to the nearest bound, and a
\* sentiment in range is kept unchanged.
C9_OutOfRangeClipped ==
    (pc = "done" /\ reply.kind = "message" /\ NumericReply(reply.content)) =>
        \A i \in 1..Len(reply.content.body.topics.items) :
            LET item == reply.content.body.topics.items[i]
            IN  \E k \in 1..Len(df) :
                    /\ df[k].topic = item.topic.s
                    /\ df[k].sentiment = Clip(Rat(item.sentiment.n, item.sentiment.d))

\* C10: every record of the result run_pipeline returns has a sentiment
\* within [-1.0, 1.0], whatever the oracle replied.
C10_ResultSentimentInRange ==
    pc = "done" =>
        \A k \in 1..Len(df) :
            /\ -df[k].sentiment[2] <= df[k].sentiment[1]
            /\ df[k].sentiment[1] <= df[k].sentiment[2]

C10_Witness ==
    /\ pc = "done"
    /\ reply.kind = "message" /\ ParseReply(reply.content).ok
    /\ Len(df) = 2
    /\ df[1].sentiment = <<1, 2>> /\ df[2].sentiment = MinusOne

\* a + b
RatAdd(a, b) == Rat(a[1] * b[2] + b[1] * a[2], a[2] * b[2])

\* the records carrying a label, in order
RowsOf(rows, label) == SelectSeq(rows, LAMBDA r : r.topic = label)

RECURSIVE SumOf(_, _)
SumOf(rows, field) ==
    IF rows = <<>> THEN Zero ELSE RatAdd(Head(rows)[field], SumOf(Tail(rows), field))

Labels(rows) == {rows[k].topic : k \in 1..Len(rows)}

\* C11: when several records carry the identical label, the result holds
\* exactly one record for that label, its minutes the sum of theirs and its
\* sentiment their arithmetic mean (no label is cut while the labels fit
\* max_topics).
C11_DuplicateLabelsMerged ==
    (pc = "done" /\ Cardinality(Labels(analysis)) <= config.max_topics) =>
        \A label \in Labels(analysis) :
            LET group == RowsOf(analysis, label)
                kept == RowsOf(df, label)
            IN  /\ Len(kept) = 1
                /\ kept[1].minutes = SumOf(group, "minutes")
                /\ kept[1].sentiment = RatDivInt(SumOf(group, "sentiment"), Len(group))

\* C12: with more than max_topics records the result holds exactly max_topics
\* of them and every dropped record's minutes are no larger than every kept
\* record's; with at most max_topics records none is dropped.
C12_TruncationKeepsLargest ==
    pc = "done" =>
        /\ Len(df) = (IF Len(analysis) > config.max_topics
                      THEN config.max_topics ELSE Len(analysis))
        /\ \E f \in [1..Len(df) -> 1..Len(analysis)] :
            /\ \A a, b \in 1..Len(df) : f[a] = f[b] => a = b
            /\ \A k \in 1..Len(df) : df[k] = analysis[f[k]]
            /\ \A j \in 1..Len(analysis) :
                 (\A k \in 1..Len(df) : f[k] # j) =>
                     \A k \in 1..Len(df) : RatLe(analysis[j].minutes, df[k].minutes)

C12_Witness ==
    /\ pc = "done" /\ config.max_topics = 1
    /\ Len(analysis) = 2
    /\ RatLt(analysis[1].minutes, analysis[2].minutes)
    /\ df = <<analysis[2]>>

\* C13: the records of the result are in non-increasing order of minutes.
C13_ResultSortedDescending ==
    pc = "done" =>
        \A k \in 1..(Len(df) - 1) :
            df[k + 1].minutes[1] * df[k].minutes[2] <= df[k].minutes[1] * df[k + 1].minutes[2]

C13_Witness ==
    /\ pc = "done" /\ Len(analysis) = 2
    /\ RatLt(analysis[1].minutes, analysis[2].minutes)
    /\ df = <<analysis[2], analysis[1]>>

\* the position at which row r enters rows already ordered by a stable sort:
\* after every row whose minutes are at least r's
RECURSIVE InsertDesc(_, _)
InsertDesc(sorted, r) ==
    IF sorted = <<>> THEN <<r>>
    ELSE IF RatLe(r.minutes, Head(sorted).minutes)
         THEN <<Head(sorted)>> \o InsertDesc(Tail(sorted), r)
         ELSE <<r>> \o sorted

RECURSIVE StableSortDesc(_)
StableSortDesc(rows) ==
    IF rows = <<>> THEN <<>>
    ELSE InsertDesc(StableSortDesc(SubSeq(rows, 1, Len(rows) - 1)), rows[Len(rows)])

\* C14: records of equal minutes appear in the result in the order the oracle
\* returned them, so the same input always gives the same result, including
\* which of several tied records survive the cut to max_topics.
C14_TiesKeepInsertionOrder ==
    pc = "done" =>
        df = SubSeq(StableSortDesc(analysis), 1, Min(config.max_topics, Len(analysis)))

Sentiments(rows) == {rows[k].sentiment : k \in 1..Len(rows)}

\* C15: the colour domain follows the data, [0, 1] on a
\* neutral-to-positive scale when the minimum sentiment is >= 0, and the
\* diverging scale over [-1, 1] when a sentiment is negative.
C15_DomainFollowsData ==
    cli_pc = "rendered" =>
        IF \A v \in Sentiments(df) : v[1] >= 0
        THEN output.range_color = <<Zero, One>> /\ output.colorscale = "sequential"
        ELSE output.range_color = <<MinusOne, One>> /\ output.colorscale = "diverging"

\* C16: generate_treemap on an empty frame raises ValueError("No data to
\* plot.") and neither creates the output directory nor writes the file.
C16_EmptyFrameFailsFirst ==
    (df = <<>> /\ cli_pc # "render_call") =>
        /\ cli_pc = "render_raised" /\ cli_raised = "ValueError"
        /\ ~output.mkdir /\ ~output.written

C16_Witness ==
    /\ df = <<>> /\ cli_pc = "render_raised" /\ cli_raised = "ValueError"
    /\ output = NoOutput

\* C17: when the oracle's reply is valid and holds no topic record,
\* run_pipeline returns an empty frame without raising, and main ends with
\* "No data produced from transcript." without calling generate_treemap and
\* without writing a report.
C17_NoRecordsNoReport ==
    (reply.kind = "message" /\ ParseReply(reply.content).ok
        /\ ParseReply(reply.content).topics = <<>>) =>
        /\ pc = "done" /\ raised = "None" /\ df = <<>>
        /\ cli_pc \in {"main", "no_data"}
        /\ (cli_pc = "no_data" => cli_raised = "SystemExit")
        /\ ~output.mkdir /\ ~output.written

C17_Witness ==
    /\ pc = "done" /\ cli_pc = "no_data" /\ cli_raised = "SystemExit"
    /\ reply.kind = "message" /\ reply.content.body = TopicsObj(JArr(<<>>))
    /\ analysis = <<>> /\ df = <<>> /\ output = NoOutput

ConfigurationErrors == {"RuntimeError", "ValueError", "OpenAIError"}

\* C18: a run started without OPENAI_API_KEY never issues an oracle request:
\* it ends in a configuration error raised while the client is constructed.
C18_MissingKeyNoOracleCall ==
    ~env_key =>
        /\ oracle_calls = 0
        /\ reply = NoReply
        /\ pc \in {"start", "analyzer_new", "raised"}
        /\ (pc = "raised" => raised \in ConfigurationErrors)

C18_Witness ==
    /\ ~env_key /\ pc = "raised" /\ raised = "RuntimeError"
    /\ oracle_calls = 0 /\ cli_pc = "main"

\* a reply whose body is a JSON object of the expected shape holding at least
\* one record, with or without text around it
ExpectedShape(content) ==
    /\ content.t = "text"
    /\ Validate(content.body).ok
    /\ Validate(content.body).topics # <<>>

\* C19: when the reply holds a valid payload of the expected shape, the
\* client returns the records of that payload whatever prose or whitespace
\* surrounds it, never a fallback or a failure.
C19_WrappedPayloadIsolated ==
    (call.mode \in {"full", "custom"} /\ reply.kind = "message"
        /\ ExpectedShape(reply.content)) =>
        /\ pc = "done" /\ raised = "None"
        /\ analysis = Validate(reply.content.body).topics

\* C20: in custom-topic mode every record of the result carries one of the
\* caller's topics as its label.
C20_CustomLabelsOnly ==
    (pc = "done" /\ call.mode = "custom") =>
        \A k \in 1..Len(df) :
            \E i \in 1..Len(config.custom_topics.list) :
                df[k].topic = config.custom_topics.list[i]

\* C22: every record of the result has minutes >= 0 and words >= 0,
\* whatever the oracle replied.
C22_SizeNeverNegative ==
    pc = "done" =>
        \A k \in 1..Len(df) : df[k].minutes[1] >= 0 /\ df[k].words >= 0

\* C23: a run of run_pipeline issues one oracle request, in custom-topic mode
\* exactly when custom_topics is a non-empty list, and none after the reply:
\* a malformed or invalid reply is absorbed into the fallback without retry.
C23_OneRequestPerRun ==
    /\ oracle_calls <= 1
    /\ (pc \in {"awaiting", "done"} \/ reply.kind # "none") =>
          /\ oracle_calls = 1
          /\ call.mode = (IF config.custom_topics.given /\ config.custom_topics.list # <<>>
                          THEN "custom" ELSE "full")
    /\ (reply.kind = "message" /\ ~ParseReply(reply.content).ok /\ pc = "done") =>
          /\ oracle_calls = 1
          /\ \A k \in 1..Len(analysis) : analysis[k].rationale.kind = "AnalysisError"

C23_Witness ==
    /\ pc = "done" /\ oracle_calls = 1 /\ call.mode = "custom"
    /\ reply.kind = "message" /\ reply.content.body = NotJson
    /\ Len(analysis) = 2 /\ cli_pc = "rendered"

\* a JSON reply whose topics list holds at least one item TopicAnalysis
\* rejects and at least one it accepts
MixedItems(content) ==
    /\ content.t = "text" /\ IsBlank(content.pre) /\ IsBlank(content.post)
    /\ content.body.t = "obj" /\ content.body.topics.t = "arr"
    /\ \E i, j \in 1..Len(content.body.topics.items) :
          LET a == content.body.topics.items[i]
              b == content.body.topics.items[j]
          IN  /\ a.t = "obj" /\ a.topic.t = "str" /\ a.sentiment.t = "num"
              /\ a.sentiment.n <= a.sentiment.d /\ -a.sentiment.d <= a.sentiment.n
              /\ \/ b.t # "obj"
                 \/ b.topic.t = "missing"
                 \/ (b.sentiment.t = "num"
                        /\ (b.sentiment.n > b.sentiment.d \/ b.sentiment.n < -b.sentiment.d))
                 \/ (b.sentiment.t = "str" /\ b.sentiment.s = "high")

\* C25: validation of a whole-transcript reply is all-or-nothing: one invalid
\* item discards every item of the reply, the result is then made of fallback
\* records only, and no result mixes oracle records with fallback records.
C25_ValidationAllOrNothing ==
    pc = "done" =>
        /\ \/ \A k \in 1..Len(analysis) : analysis[k].rationale.kind = "oracle"
           \/ \A k \in 1..Len(analysis) : analysis[k].rationale.kind = "AnalysisError"
        /\ (reply.kind = "message" /\ MixedItems(reply.content)) =>
              /\ analysis # <<>>
              /\ \A k \in 1..Len(analysis) :
                    /\ analysis[k].rationale.kind = "AnalysisError"
                    /\ analysis[k].sentiment = Zero

C25_Witness ==
    /\ pc = "done" /\ call.mode = "full"
    /\ reply.kind = "message" /\ MixedItems(reply.content)
    /\ Len(reply.content.body.topics.items) = 2
    /\ reply.content.body.topics.items[1].t = "obj"
    /\ reply.content.body.topics.items[1].topic = JStr("A")
    /\ reply.content.body.topics.items[1].sentiment = JNum(1, 2)
    /\ Len(analysis) = 1 /\ analysis[1].rationale.exc = "ValidationError"

\* C26: when the message content is None the call still returns a fallback
\* record and raises nothing.
C26_NoneContentFallsBack ==
    (call.mode = "full" /\ reply.kind = "message" /\ reply.content.t = "none") =>
        /\ pc = "done" /\ raised = "None"
        /\ Len(analysis) = 1 /\ analysis[1].rationale.kind = "AnalysisError"

\* C28: with words_per_minute = 0 the run fails with ZeroDivisionError before
\* any oracle request and yields neither a result nor a fallback, while
\* estimate_minutes divides by max(wpm, 1) for every wpm.
C28_ZeroWpmDivisionError ==
    /\ config.wpm = 0 =>
          /\ oracle_calls = 0 /\ reply = NoReply /\ call = NoCall
          /\ analysis = <<>> /\ df = <<>> /\ pc # "done"
          /\ (pc = "raised" /\ env_key) => raised = "ZeroDivisionError"
    /\ \A wpm \in -1..2 :
          LET n == Len(SplitWords(text))
              q == estimate_minutes(n, wpm)
          IN  q[2] > 0 /\ q[1] * (IF wpm < 1 THEN 1 ELSE wpm) = n * q[2]

C28_Witness ==
    /\ config.wpm = 0 /\ env_key /\ pc = "raised" /\ raised = "ZeroDivisionError"
    /\ oracle_calls = 0 /\ Len(SplitWords(text)) = 3

RECURSIVE SumWords(_)
SumWords(rows) == IF rows = <<>> THEN 0 ELSE Head(rows).words + SumWords(Tail(rows))

\* the words of the custom-topic fallback: each record holds
\* floor(total_words / n), so the records hold n * floor(total_words / n)
\* words together, total_words mod n short of total_words
FallbackWordsFloor ==
    LET n == Len(config.custom_topics.list)
    IN  /\ Len(analysis) = n
        /\ \A i \in 1..n :
              /\ analysis[i].words * n <= call.total_words
              /\ call.total_words < (analysis[i].words + 1) * n
        /\ SumWords(analysis) = n * analysis[1].words
        /\ SumWords(analysis) <= call.total_words
        /\ call.total_words - SumWords(analysis) = call.total_words % n

\* C27 as stated: the words are floored and the minutes of the fallback
\* records add up to the transcript's total minutes.
C27_FallbackSumsToTotal ==
    pc = "returned" =>
        /\ FallbackWordsFloor
        /\ FloatSum([i \in 1..Len(analysis) |-> analysis[i].minutes]) = call.total_minutes

\* C27, amended: the words are floored; every record holds the same minutes,
\* the float quotient total_minutes / n, and their float sum is the total for
\* one or two topics (for more topics it can differ in the last digits).
C27_FallbackSplitsTotal ==
    pc = "returned" =>
        /\ FallbackWordsFloor
        /\ \A i \in 1..Len(analysis) : analysis[i].minutes = analysis[1].minutes
        /\ Len(analysis) <= 2 =>
              FloatSum([i \in 1..Len(analysis) |-> analysis[i].minutes]) = call.total_minutes
        /\ (call.total_words > 0) => ~analysis[1].minutes.zero
        /\ (Len(analysis) > 1 /\ call.total_words > 0) =>
              analysis[1].minutes # call.total_minutes

C27_Witness ==
    /\ pc = "returned" /\ Len(analysis) = 2
    /\ call.total_words = 3 /\ config.wpm = 3
    /\ analysis[1].words = 1 /\ analysis[2].words = 1
    /\ FloatSum(<<analysis[1].minutes, analysis[2].minutes>>) = IntDiv(1, 1)

(***************************************************************************)
(* EarningsCallAnalyzer.main: the files of a run                           *)
(***************************************************************************)
C21_IsRecord(item) ==
    /\ item.t = "obj"
    /\ item.topic # JMissing
    /\ item.sentiment.t = "num"
    /\ item.word_count # JMissing
    /\ item.reasoning.t = "str"

\* C21: every results file save_results has written is a JSON array whose
\* elements all have the fields topic, sentiment (a number), word_count and
\* reasoning (a string), whatever the oracle replied.
C21_ResultsFileSchema ==
    results_file # NoFile =>
        /\ results_file.t = "arr"
        /\ \A k \in 1..Len(results_file.items) : C21_IsRecord(results_file.items[k])

\* the rows the cleaning of generate_heatmap keeps: no column holds a null, a
\* missing value or a non-number where a number is required, and the word
\* count is positive
C24_Kept(items, k) ==
    /\ \A col \in Columns : HasColumn(items, col) => NotNa(items[k], col)
    /\ FloatOf(items[k].word_count)[1] > 0

\* the rows left when only the non-numeric rows and the rows with
\* word_count <= 0 are removed
C24_NumericKept(items, k) ==
    /\ IsFloat(items[k].sentiment)
    /\ IsFloat(items[k].word_count)
    /\ FloatOf(items[k].word_count)[1] > 0

C24_TicksMatch ==
    /\ heatmap.vmin \in {0, -1} /\ heatmap.vmax = 1
    /\ heatmap.ticks[1] = heatmap.vmin /\ heatmap.ticks[3] = heatmap.vmax
    /\ heatmap.ticklabels[1] = (IF heatmap.vmin = 0 THEN "Neutral" ELSE "Very Negative")

\* C24 as stated: the heatmap's colour domain is [0, 1] exactly when no row
\* with numeric sentiment and word_count and with word_count > 0 has a
\* negative sentiment, and the ticks match the domain.
C24_DomainFollowsNumericRows ==
    heatmap # NoFile =>
        /\ C24_TicksMatch
        /\ (heatmap.vmin = 0) <=>
             \A k \in 1..Len(topics_data.items) :
                 C24_NumericKept(topics_data.items, k)
                     => FloatOf(topics_data.items[k].sentiment)[1] >= 0

\* C24 (amended): the heatmap's colour domain is [0, 1] exactly when no row
\* that survives the cleaning (dropna over all columns after the numeric
\* conversion, then word_count > 0) has a negative sentiment, and [-1, 1]
\* otherwise; the ticks match the domain.
C24_DomainFollowsCleanedRows ==
    heatmap # NoFile =>
        /\ C24_TicksMatch
        /\ (heatmap.vmin = 0) <=>
             \A k \in 1..Len(topics_data.items) :
                 C24_Kept(topics_data.items, k)
                     => FloatOf(topics_data.items[k].sentiment)[1] >= 0

\* a heatmap on [0, 1] drawn from a reply that holds a negative sentiment on
\* a row without words
C24_Witness ==
    /\ heatmap # NoFile /\ heatmap.vmin = 0
    /\ \E k \in 1..Len(topics_data.items) :
        /\ topics_data.items[k].sentiment = JNum(-1, 2)
        /\ topics_data.items[k].word_count = JNum(0, 1)

C30_Analyzed == pc \in {"analyzer_returned", "main_saved", "main_done", "main_no_frame", "main_error"}

C30_NonEmptyList == topics_data.t = "arr" /\ topics_data.items # <<>>

\* C30: analyze_transcript returns without raising, and returns None when the
\* request fails, the response has no text, or the text holds no parseable
\* array; the results JSON is written only after a non-empty list was
\* returned and before the heatmap step; after a failed analysis neither file
\* is written (the results file is absent or still the one of an earlier
\* run); the heatmap step never touches the JSON.
C30_FilesFollowAnalysis ==
    /\ [](C30_Analyzed =>
            /\ raised \in {"None", "DataError", "KeyError", "OSError"}
            /\ topics_data = JNull \/ topics_data.t = "arr"
            /\ (\/ reply.kind = "error"
                \/ reply.content.t = "none"
                \/ (reply.content.body = NotJson /\ ~HasChar(reply.content.pre, "[")))
                  => topics_data = JNull)
    /\ [](pc = "analyzer_returned" => raised = "None")
    /\ [](~C30_NonEmptyList => results_file \in {NoFile, EarlierResults} /\ heatmap = NoFile)
    /\ [][/\ results_file' # results_file =>
               C30_NonEmptyList /\ pc = "analyzer_returned" /\ heatmap = NoFile
          /\ heatmap' # heatmap => pc = "main_saved"
          /\ pc = "main_saved" => results_file' = results_file]_vars

\* the heatmap step ended with no plottable rows and the JSON is in place
C30_Witness ==
    /\ pc = "main_no_frame"
    /\ heatmap = NoFile
    /\ results_file = topics_data
    /\ C30_NonEmptyList

(***************************************************************************)
(* TranscriptAnalyzer: the cache file                                      *)
(***************************************************************************)
C29_Step(kind) ==
    CASE kind = "start" -> pc = "cache_idle" /\ call'.mode \in {"cached", "fresh"}
      [] kind = "hit" -> pc = "cache_idle" /\ call'.mode = "cached"
      [] kind = "clear" -> pc = "cache_idle" /\ call'.mode = "clear"
      [] kind = "failed" -> pc = "cache_awaiting" /\ topics_data' = JNull
      [] OTHER -> pc = "cache_awaiting" /\ topics_data' # JNull

\* what every call does with the cache: a call that is not forced and finds a
\* readable cache returns its content and issues no request; a failed
\* analysis and a cache hit leave the file as it is; clear_cache removes it
C29_CallsAndCache ==
    [][/\ (C29_Step("start") /\ ~call'.force /\ Readable(cache_file)) =>
            /\ topics_data' = cache_file
            /\ oracle_calls' = oracle_calls
            /\ pc' = "cache_idle"
       /\ C29_Step("hit") => cache_file' = cache_file
       /\ C29_Step("failed") => cache_file' = cache_file
       /\ C29_Step("clear") => cache_file' = NoFile]_vars

\* C29 as stated: whenever the cache file is present it holds the topics of
\* the most recent successfully parsed oracle reply, and every call treats
\* the cache as described.
C29_CacheHoldsLatestReply ==
    /\ [](cache_file # NoFile => cache_file = last_topics)
    /\ C29_CallsAndCache

\* C29 (amended): a parsed reply is returned and written to the cache file;
\* when that write succeeds the file holds the reply's topics, when it fails
\* the file is left as it was or unreadable; nothing but a parsed reply and
\* clear_cache changes the file; every call treats the cache as described.
C29_CacheFollowsWrites ==
    /\ [][/\ C29_Step("parsed") =>
               /\ topics_data' = last_topics'
               /\ cache_file' \in {topics_data', cache_file, Unreadable}
          /\ cache_file' # cache_file => C29_Step("parsed") \/ C29_Step("clear")
          /\ (cache_file' # cache_file /\ Readable(cache_file')) => cache_file' = last_topics'
         ]_vars
    /\ C29_CallsAndCache

\* a call for another transcript got the cached topics of an earlier reply,
\* without a second request
C29_Witness ==
    /\ pc = "cache_idle" /\ call.mode = "cached" /\ ~call.force
    /\ oracle_calls = 1
    /\ text = <<"a", " ", "b">>
    /\ topics_data = cache_file /\ cache_file = last_topics
    /\ cache_file = JArr(<<AObj(JStr("B"), JNum(-1, 2), JNum(1, 1), JMissing)>>)

====
